---- MODULE Spec2Model ----
(***************************************************************************)
(* State-machine model of backend/server.py: the session store, the user   *)
(* store and the transaction store (three MongoDB collections) and the     *)
(* request handlers that read and write them.  Every `await` on the store  *)
(* is one atomic step; handlers of different requests interleave between   *)
(* their steps.                                                            *)
(***************************************************************************)
EXTENDS Integers, Sequences, FiniteSets, TLC

VARIABLES
    users,          \* db.users
    user_sessions,  \* db.user_sessions
    transactions,   \* db.transactions
    now,            \* datetime.now(timezone.utc), in days
    next_id,        \* the next uuid4 of each collection
    req,            \* the handlers in flight: their position and locals
    resp            \* the response the last step sent, if it sent one

vars == <<users, user_sessions, transactions, now, next_id, req, resp>>

store == <<users, user_sessions, transactions>>

(***************************************************************************)
(* Bounds of the model.                                                    *)
(***************************************************************************)
\* rows ever inserted in db.users, db.user_sessions, db.transactions
MaxUsers == 2
MaxSessions == 2
MaxTx == 1

\* request handlers that can be in flight at the same time
Handlers == {"h1", "h2"}

\* the instants (in days) the clock takes: a session made at day 0 expires at
\* day 7 and one made at day 7 at day 14
Instants == {0, 7, 8}

\* timedelta(days=7)
SESSION_DAYS == 7

\* to_list(1000)
LIST_CAP == 1000

\* timedelta(days=365)
WINDOW_DAYS == 365

(***************************************************************************)
(* Optional values: None is the empty tuple, a value v is <<v>>.           *)
(***************************************************************************)
None == <<>>
Some(v) == <<v>>

(***************************************************************************)
(* Inputs.                                                                 *)
(***************************************************************************)
Tokens == {"t1", "t2", "t3"}

\* the session tokens the identity provider hands out
ProviderTokens == {"t1", "t2"}

\* what the identity provider answers for a session id: a transport failure,
\* a non-200 status, or 200 with {email, name, picture, session_token}
Profiles ==
    { [email |-> "a@x", name |-> "Ann", picture |-> "pa1"],
      [email |-> "a@x", name |-> "Anna", picture |-> "pa2"],
      [email |-> "b@x", name |-> "Bob", picture |-> "pb1"] }

ProviderAnswers ==
    { [outcome |-> "request_error"], [outcome |-> "status_403"] }
    \cup { [outcome |-> "status_200", user_data |-> d, session_token |-> t] :
             d \in Profiles, t \in ProviderTokens }

\* the X-Session-ID header: absent ("") or an id
SessionIds == {"", "sid"}

\* the session_token cookie: absent ("") or a token
Cookies == {""} \cup Tokens

\* the Authorization header as the pieces of its text: absent (<<>>),
\* "Bearer " followed by a token, a bare token, or "Bearer " alone
AuthHeaders ==
    { <<>>, <<"Bearer ">> }
    \cup { <<"Bearer ", t>> : t \in Tokens }
    \cup { <<t>> : t \in {"t1"} }

Fields == {"type", "amount", "category", "description", "date"}

\* JSON bodies of POST /transactions; the last two lack required fields
CreateBodies ==
    { [type |-> "expense", amount |-> 50, category |-> "Food",
       description |-> "lunch", date |-> 1],
      [type |-> "expense"],
      [x \in {} |-> 0] }

\* JSON bodies of PUT /transactions/{id}: a field is absent, null or a value
UpdateBodies ==
    { [x \in {} |-> None],
      [amount |-> Some(0), category |-> None],
      [type |-> Some("income"), amount |-> Some(20), category |-> Some("Gifts"),
       description |-> Some("gift"), date |-> Some(8)] }

\* query parameters of GET /transactions: category, start_date, end_date
ListQueries ==
    { [category |-> "", start_date |-> None, end_date |-> None],
      [category |-> "Food", start_date |-> Some(2), end_date |-> None],
      [category |-> "", start_date |-> Some(5), end_date |-> Some(7)],
      [category |-> "Food", start_date |-> None, end_date |-> Some(5)] }

TxIds == 1..MaxTx

(***************************************************************************)
(* Request handlers in flight.                                             *)
(***************************************************************************)
\* a handler that is between requests
Idle == [pc |-> "idle", user |-> None, tid |-> 0, data |-> None]

\* a handler at position pc with its locals: the user get_current_user
\* returned, the transaction id of the path, the body or query of the request
Running(pc, user, tid, data) == [pc |-> pc, user |-> user, tid |-> tid, data |-> data]

\* HTTPException(status_code=...) or a returned value (200), with the request
\* it answers: the route, the token the request carries when the response is
\* sent at the handler's first step, and the handler's locals
Response(kind, session_token, r, status, result) ==
    Some([kind |-> kind, session_token |-> session_token, user |-> r.user,
          tid |-> r.tid, data |-> r.data, status |-> status, result |-> result])

\* what a request to /auth/me or /auth/logout carries: its session_token
\* cookie and its Authorization header, kept with the response
Credentials(cookie, header) == [cookie |-> cookie, header |-> header]

\* no response is being sent
Ready == resp = None

At(p, pc) == Ready /\ req[p].pc = pc

Free(p) == At(p, "idle")

\* handler p answers and is free again
Answer(p, kind, session_token, r, status, result) ==
    /\ req' = [req EXCEPT ![p] = Idle]
    /\ resp' = Response(kind, session_token, r, status, result)

\* the response has left
Deliver ==
    /\ resp # None
    /\ resp' = None
    /\ UNCHANGED <<users, user_sessions, transactions, now, next_id, req>>

(***************************************************************************)
(* The store.  A row's id is a uuid4: a fresh value, here the next number  *)
(* of its collection.  The created_at fields are left out: no handler      *)
(* reads them.                                                             *)
(***************************************************************************)
\* find_one(filter): one of the matching rows, or None
find_one(rows) == IF rows = {} THEN {None} ELSE { Some(r) : r \in rows }

\* a delete that removes nothing
delete_one_keeps(coll, rows) == {coll}

\* delete_one(filter): the collections that can result, one matching row removed
delete_one(coll, rows) == IF rows = {} THEN {coll} ELSE { coll \ {r} : r \in rows }

\* "$setOnInsert" in place of "$set": a row that exists is left as it is
Set_on_insert(row, update_data) == row

\* update_one(filter, {"$set": update_data}): one matching row gets the fields
\* of update_data, the other fields keep their values; no match, no change
Set(row, update_data) ==
    [f \in DOMAIN row |-> IF f \in DOMAIN update_data THEN update_data[f] ELSE row[f]]

update_one(coll, rows, update_data) ==
    IF rows = {} THEN {coll}
    ELSE { (coll \ {r}) \cup {Set(r, update_data)} : r \in rows }

\* a filter that leaves out "user_id"
OwnTransaction_any_owner(transaction_id, user_id) ==
    { t \in transactions : t.id = transaction_id }

\* the rows the filter {"id": transaction_id, "user_id": user.id} selects
OwnTransaction(transaction_id, user_id) ==
    { t \in transactions : t.id = transaction_id /\ t.user_id = user_id }

\* the rows the filter {"user_id": user.id} selects
OwnTransactions(user_id) == { t \in transactions : t.user_id = user_id }

(***************************************************************************)
(* Authentication helpers.                                                 *)
(***************************************************************************)
\* headers.get("authorization", "").replace("Bearer ", ""): the text without
\* its "Bearer " pieces (the headers drawn leave at most one other piece)
HeaderToken(header) ==
    LET rest == SelectSeq(header, LAMBDA x : x # "Bearer ")
    IN IF rest = <<>> THEN "" ELSE rest[1]

\* the header's token first, the cookie when the header has none
SessionToken_header_first(cookie, header) ==
    IF HeaderToken(header) # "" THEN HeaderToken(header) ELSE cookie

\* cookies.get("session_token") or <the header's token>
SessionToken(cookie, header) == IF cookie # "" THEN cookie ELSE HeaderToken(header)

\* "$gte" in place of "$gt"
ValidSessions_gte(session_token) ==
    { s \in user_sessions : s.session_token = session_token /\ s.expires_at >= now }

\* the rows matching {"session_token": t, "expires_at": {"$gt": now}}
ValidSessions(session_token) ==
    { s \in user_sessions : s.session_token = session_token /\ s.expires_at > now }

\* get_current_user: the values it can return for a token (find_one takes any
\* matching row).  Its two reads are one step: a User row is never changed
\* or deleted, and the row a Session names is inserted before the Session.
get_current_user(session_token) ==
    IF session_token = "" THEN {None}
    ELSE IF ValidSessions(session_token) = {} THEN {None}
    ELSE UNION { find_one({ u \in users : u.id = s.user_id }) :
                   s \in ValidSessions(session_token) }

(***************************************************************************)
(* Initial state: empty collections, no request in flight.                 *)
(***************************************************************************)
Init ==
    /\ users = {}
    /\ user_sessions = {}
    /\ transactions = {}
    /\ now = 0
    /\ next_id = [users |-> 1, user_sessions |-> 1, transactions |-> 1]
    /\ req = [p \in Handlers |-> Idle]
    /\ resp = None

\* time passes
Tick ==
    /\ Ready
    /\ \E t \in Instants : t > now /\ now' = t
    /\ resp' = None
    /\ UNCHANGED <<users, user_sessions, transactions, next_id, req>>

(***************************************************************************)
(* GET /auth/session-data                                                  *)
(***************************************************************************)
\* an "except Exception" around the provider call: the 401 becomes a 500
ProviderFailure_catch_all(outcome) == 500

\* lines 119-120 and 156-157: a status other than 200 raises
\* HTTPException(401), which "except httpx.RequestError" does not catch; a
\* transport failure raises httpx.RequestError, answered with 500
ProviderFailure(outcome) == IF outcome = "request_error" THEN 500 ELSE 401

\* lines 108-122: the header check and the provider call
get_session_data(p) ==
    /\ Free(p)
    /\ \E session_id \in SessionIds :
         \/ /\ session_id = ""
            /\ Answer(p, "login", "", Idle, 400, None)
         \/ /\ session_id # ""
            /\ \E response \in ProviderAnswers :
                 LET r == [Idle EXCEPT !.data = Some(response)]
                 IN \/ /\ response.outcome # "status_200"
                       /\ Answer(p, "login", "", r,
                                 ProviderFailure(response.outcome), None)
                    \/ /\ response.outcome = "status_200"
                       /\ req' = [req EXCEPT ![p] = [r EXCEPT !.pc = "login_find"]]
                       /\ resp' = None
    /\ UNCHANGED <<users, user_sessions, transactions, now, next_id>>

\* a filter on a field no row has
UsersByEmail_no_match(email) == {}

\* the rows the filter {"email": user_data["email"]} selects
UsersByEmail(email) == { u \in users : u.email = email }

\* line 125: existing_user = find_one({"email": ...})
get_session_data_find(p) ==
    /\ At(p, "login_find")
    /\ \E existing_user \in find_one(UsersByEmail(req[p].data[1].user_data.email)) :
         req' = [req EXCEPT ![p].user = existing_user,
                            ![p].pc = IF existing_user = None
                                      THEN "login_insert_user"
                                      ELSE "login_insert_session"]
    /\ resp' = None
    /\ UNCHANGED <<users, user_sessions, transactions, now, next_id>>

\* lines 129-133: new_user = User(email=..., name=..., picture=...)
NewUser(id, user_data) ==
    [id |-> id, email |-> user_data.email, name |-> user_data.name,
     picture |-> user_data.picture]

\* lines 129-135: insert_one(new_user)
get_session_data_insert_user(p) ==
    /\ At(p, "login_insert_user")
    /\ next_id.users <= MaxUsers
    /\ LET new_user == NewUser(next_id.users, req[p].data[1].user_data)
       IN /\ users' = users \cup {new_user}
          /\ req' = [req EXCEPT ![p].user = Some(new_user),
                                ![p].pc = "login_insert_session"]
    /\ next_id' = [next_id EXCEPT !.users = @ + 1]
    /\ resp' = None
    /\ UNCHANGED <<user_sessions, transactions, now>>

\* lines 140-147: UserSession(user_id=..., session_token=..., expires_at=...)
NewSession(id, user, session_token) ==
    [id |-> id, user_id |-> user.id, session_token |-> session_token,
     expires_at |-> now + SESSION_DAYS]

\* lines 140-154: insert_one(user_session); return {user, session_token}
get_session_data_insert_session(p) ==
    /\ At(p, "login_insert_session")
    /\ next_id.user_sessions <= MaxSessions
    /\ LET user == req[p].user[1]
           session_token == req[p].data[1].session_token
       IN /\ user_sessions' = user_sessions
                \cup {NewSession(next_id.user_sessions, user, session_token)}
          /\ Answer(p, "login", "", req[p], 200,
                    Some([user |-> user, session_token |-> session_token]))
    /\ next_id' = [next_id EXCEPT !.user_sessions = @ + 1]
    /\ UNCHANGED <<users, transactions, now>>

(***************************************************************************)
(* POST /auth/logout                                                       *)
(***************************************************************************)
\* a filter on the user of the token in place of the token
SessionsByToken_of_user(session_token) ==
    { s \in user_sessions :
        \E m \in user_sessions :
          m.session_token = session_token /\ m.user_id = s.user_id }

\* the rows the filter {"session_token": session_token} selects
SessionsByToken(session_token) ==
    { s \in user_sessions : s.session_token = session_token }

logout(p) ==
    /\ Free(p)
    /\ \E cookie \in Cookies, header \in AuthHeaders :
         LET session_token == SessionToken(cookie, header)
         IN /\ IF session_token # ""
               THEN user_sessions' \in
                      delete_one(user_sessions, SessionsByToken(session_token))
               ELSE user_sessions' = user_sessions
            /\ Answer(p, "logout", session_token,
                      Running("idle", None, 0, Some(Credentials(cookie, header))),
                      200, Some("Logged out successfully"))
    /\ UNCHANGED <<users, transactions, now, next_id>>

(***************************************************************************)
(* The start of a protected handler: user = await get_current_user(request);*)
(* 401 if it is None, else on to the handler's first access to the store.  *)
(***************************************************************************)
Authenticate(p, kind, nextpc, tid, data) ==
    /\ Free(p)
    /\ \E cookie \in Cookies, header \in AuthHeaders :
         LET session_token == SessionToken(cookie, header)
         IN \E user \in get_current_user(session_token) :
              IF user = None
              THEN Answer(p, kind, session_token, Idle, 401, None)
              ELSE /\ req' = [req EXCEPT ![p] = Running(nextpc, user, tid, data)]
                   /\ resp' = None
    /\ UNCHANGED <<users, user_sessions, transactions, now, next_id>>

(***************************************************************************)
(* GET /auth/me                                                            *)
(***************************************************************************)
\* a sliding expiry: a successful resolution renews the sessions of the token
get_current_user_info_sliding(p) ==
    /\ Free(p)
    /\ \E cookie \in Cookies, header \in AuthHeaders :
         LET session_token == SessionToken(cookie, header)
         IN \E user \in get_current_user(session_token) :
              /\ Answer(p, "me", session_token,
                        Running("me", user, 0, Some(Credentials(cookie, header))),
                        IF user = None THEN 401 ELSE 200, user)
              /\ user_sessions' =
                   IF user = None THEN user_sessions
                   ELSE { IF s \in ValidSessions(session_token)
                          THEN [s EXCEPT !.expires_at = now + SESSION_DAYS]
                          ELSE s : s \in user_sessions }
    /\ UNCHANGED <<users, transactions, now, next_id>>

get_current_user_info(p) ==
    /\ Free(p)
    /\ \E cookie \in Cookies, header \in AuthHeaders :
         LET session_token == SessionToken(cookie, header)
         IN \E user \in get_current_user(session_token) :
              Answer(p, "me", session_token,
                     Running("me", user, 0, Some(Credentials(cookie, header))),
                     IF user = None THEN 401 ELSE 200, user)
    /\ UNCHANGED <<users, user_sessions, transactions, now, next_id>>

(***************************************************************************)
(* Transaction routes.                                                     *)
(***************************************************************************)
\* TransactionCreate: all five fields are required; the framework answers 422
\* for a body that does not validate, before the handler runs
ValidCreate(body) == DOMAIN body = Fields

\* POST /transactions, lines 180-184
create_transaction(p) ==
    \E body \in CreateBodies :
      \/ /\ ~ValidCreate(body)
         /\ Free(p)
         /\ \E cookie \in Cookies, header \in AuthHeaders :
              Answer(p, "create", SessionToken(cookie, header),
                     Running("create", None, 0, Some(body)), 422, None)
         /\ UNCHANGED <<users, user_sessions, transactions, now, next_id>>
      \/ /\ ValidCreate(body)
         /\ Authenticate(p, "create", "create_insert", 0, Some(body))

\* line 186: Transaction(user_id=user.id, **transaction_data.dict())
NewTransaction(id, user, body) ==
    [id |-> id, user_id |-> user.id, type |-> body.type, amount |-> body.amount,
     category |-> body.category, description |-> body.description,
     date |-> body.date]

\* lines 186-192: insert_one(transaction); return transaction
create_transaction_insert(p) ==
    /\ At(p, "create_insert")
    /\ next_id.transactions <= MaxTx
    /\ LET transaction ==
             NewTransaction(next_id.transactions, req[p].user[1], req[p].data[1])
       IN /\ transactions' = transactions \cup {transaction}
          /\ Answer(p, "create", "", req[p], 200, Some(transaction))
    /\ next_id' = [next_id EXCEPT !.transactions = @ + 1]
    /\ UNCHANGED <<users, user_sessions, now>>

\* GET /transactions/{transaction_id}, lines 219-223
get_transaction(p) ==
    \E transaction_id \in TxIds :
      Authenticate(p, "get", "get_find", transaction_id, None)

\* lines 225-229
get_transaction_find(p) ==
    /\ At(p, "get_find")
    /\ \E transaction \in find_one(OwnTransaction(req[p].tid, req[p].user[1].id)) :
         IF transaction = None
         THEN Answer(p, "get", "", req[p], 404, None)
         ELSE Answer(p, "get", "", req[p], 200, transaction)
    /\ UNCHANGED <<users, user_sessions, transactions, now, next_id>>

\* "if v" in place of "if v is not None": 0 is dropped too
update_data_truthy(body) ==
    [f \in { g \in DOMAIN body :
                body[g] # None /\ ~(g = "amount" /\ body[g] = Some(0)) } |->
       body[f][1]]

\* transaction_data.dict() with the None values dropped (line 244): a field
\* that is absent from the body is None in the TransactionUpdate
update_data(body) ==
    [f \in { g \in DOMAIN body : body[g] # None } |-> body[f][1]]

\* PUT /transactions/{transaction_id}, lines 232-236
update_transaction(p) ==
    \E transaction_id \in TxIds, body \in UpdateBodies :
      Authenticate(p, "update", "update_find", transaction_id, Some(body))

\* lines 239-246: existing = find_one(...); 404 if not existing
update_transaction_find(p) ==
    /\ At(p, "update_find")
    /\ \E existing \in find_one(OwnTransaction(req[p].tid, req[p].user[1].id)) :
         IF existing = None
         THEN Answer(p, "update", "", req[p], 404, None)
         ELSE /\ req' = [req EXCEPT ![p].pc =
                           IF DOMAIN update_data(req[p].data[1]) # {}
                           THEN "update_set" ELSE "update_refind"]
              /\ resp' = None
    /\ UNCHANGED <<users, user_sessions, transactions, now, next_id>>

\* lines 247-250: update_one({"id", "user_id"}, {"$set": update_data})
update_transaction_set(p) ==
    /\ At(p, "update_set")
    /\ transactions' \in
         update_one(transactions, OwnTransaction(req[p].tid, req[p].user[1].id),
                    update_data(req[p].data[1]))
    /\ req' = [req EXCEPT ![p].pc = "update_refind"]
    /\ resp' = None
    /\ UNCHANGED <<users, user_sessions, now, next_id>>

\* lines 253-254: updated_transaction = find_one(...); Transaction(**None)
\* raises TypeError, which the framework answers with 500
update_transaction_refind(p) ==
    /\ At(p, "update_refind")
    /\ \E updated_transaction \in
            find_one(OwnTransaction(req[p].tid, req[p].user[1].id)) :
         IF updated_transaction = None
         THEN Answer(p, "update", "", req[p], 500, None)
         ELSE Answer(p, "update", "", req[p], 200, updated_transaction)
    /\ UNCHANGED <<users, user_sessions, transactions, now, next_id>>

\* DELETE /transactions/{transaction_id}, lines 257-261
delete_transaction(p) ==
    \E transaction_id \in TxIds :
      Authenticate(p, "delete", "delete_one", transaction_id, None)

\* lines 263-267: delete_one(...); 404 if deleted_count == 0
delete_transaction_delete(p) ==
    /\ At(p, "delete_one")
    /\ LET rows == OwnTransaction(req[p].tid, req[p].user[1].id)
       IN /\ transactions' \in delete_one(transactions, rows)
          /\ IF rows = {}
             THEN Answer(p, "delete", "", req[p], 404, None)
             ELSE Answer(p, "delete", "", req[p], 200,
                         Some("Transaction deleted successfully"))
    /\ UNCHANGED <<users, user_sessions, now, next_id>>

(***************************************************************************)
(* Queries over the caller's transactions.                                 *)
(***************************************************************************)
\* the orders a cursor can return the rows in
RECURSIVE Orderings(_)
Orderings(rows) ==
    IF rows = {} THEN {<<>>}
    ELSE UNION { { <<r>> \o s : s \in Orderings(rows \ {r}) } : r \in rows }

Earliest(dates) == CHOOSE d \in dates : \A e \in dates : d <= e

Latest(dates) == 0 - Earliest({ 0 - d : d \in dates })

\* the rows dated from..to by date descending, rows of equal date in any order
RECURSIVE sort_between(_, _, _)
sort_between(rows, from, to) ==
    IF rows = {} THEN {<<>>}
    ELSE IF from = to THEN Orderings(rows)
    ELSE LET mid == (from + to) \div 2
         IN { a \o b :
                a \in sort_between({ r \in rows : r.date > mid }, mid + 1, to),
                b \in sort_between({ r \in rows : r.date <= mid }, from, mid) }

\* .sort("date", -1): the orders the sorted cursor can return the rows in
sort_date_desc(rows) ==
    IF rows = {} THEN {<<>>}
    ELSE LET dates == { r.date : r \in rows }
         IN sort_between(rows, Earliest(dates), Latest(dates))

\* .to_list(length): the first rows of the cursor
to_list(s, length) == SubSeq(s, 1, IF Len(s) < length THEN Len(s) ELSE length)

\* the sets of k rows a cursor can leave for after its first rows
RECURSIVE Later(_, _)
Later(rows, k) ==
    IF k = 0 THEN {{}}
    ELSE UNION { { d \cup {r} : r \in rows \ d } : d \in Later(rows, k - 1) }

\* find(filter).to_list(length) without a sort: the cursor returns the rows in
\* an order the store chooses, so the rows fetched are all of them or any
\* `length` of them.  The handlers that fetch this way only add amounts up
\* (integers here), so the order among the rows fetched is left out.
find_to_list(rows, length) ==
    IF Cardinality(rows) <= length THEN {rows}
    ELSE { rows \ d : d \in Later(rows, Cardinality(rows) - length) }

\* "$gt" and "$lt" in place of "$gte" and "$lte"
ListFilter_exclusive(user_id, q) ==
    { t \in transactions :
        /\ t.user_id = user_id
        /\ (q.category # "" => t.category = q.category)
        /\ (q.start_date # None => t.date > q.start_date[1])
        /\ (q.end_date # None => t.date < q.end_date[1]) }

\* lines 202-213: the filter get_transactions builds from its parameters; a
\* date parameter is the day its ISO text denotes, None when it is not given
ListFilter(user_id, q) ==
    { t \in transactions :
        /\ t.user_id = user_id
        /\ (q.category # "" => t.category = q.category)
        /\ (q.start_date # None => t.date >= q.start_date[1])
        /\ (q.end_date # None => t.date <= q.end_date[1]) }

\* GET /transactions, lines 195-200
get_transactions(p) ==
    \E q \in ListQueries : Authenticate(p, "list", "list_find", 0, Some(q))

\* lines 202-216
get_transactions_find(p) ==
    /\ At(p, "list_find")
    /\ \E s \in sort_date_desc(ListFilter(req[p].user[1].id, req[p].data[1])) :
         Answer(p, "list", "", req[p], 200, Some(to_list(s, LIST_CAP)))
    /\ UNCHANGED <<users, user_sessions, transactions, now, next_id>>

\* the amounts of `amounts` added up, each as often as rows carry it
RECURSIVE SumOf(_, _)
SumOf(amounts, rows) ==
    IF amounts = {} THEN 0
    ELSE LET a == CHOOSE x \in amounts : TRUE
         IN a * Cardinality({ t \in rows : t.amount = a })
              + SumOf(amounts \ {a}, rows)

\* sum(t["amount"] for t in rows)
SumAmounts(rows) == SumOf({ t.amount : t \in rows }, rows)

\* the rows of a list
Rows(s) == { s[i] : i \in 1..Len(s) }

\* lines 280-298: the DashboardStats of the rows fetched
DashboardStats(rows) ==
    LET total_income == SumAmounts({ t \in rows : t.type = "income" })
        total_expenses == SumAmounts({ t \in rows : t.type = "expense" })
    IN [total_income |-> total_income,
        total_expenses |-> total_expenses,
        balance |-> total_income - total_expenses,
        transactions_count |-> Cardinality(rows),
        category_breakdown |->
          [c \in { t.category : t \in rows } |->
             SumAmounts({ t \in rows : t.category = c })]]

\* GET /dashboard/stats, lines 271-275
get_dashboard_stats(p) == Authenticate(p, "stats", "stats_find", 0, None)

\* lines 278-298
get_dashboard_stats_find(p) ==
    /\ At(p, "stats_find")
    /\ \E rows \in find_to_list(OwnTransactions(req[p].user[1].id), LIST_CAP) :
         Answer(p, "stats", "", req[p], 200, Some(DashboardStats(rows)))
    /\ UNCHANGED <<users, user_sessions, transactions, now, next_id>>

\* the calendar: day 0 is 2025-01-01, years of 365 days
MonthLengths == <<31, 28, 31, 30, 31, 30, 31, 31, 30, 31, 30, 31>>

RECURSIVE MonthDay(_, _)
MonthDay(day_of_year, month) ==
    IF day_of_year < MonthLengths[month]
    THEN <<month, day_of_year + 1>>
    ELSE MonthDay(day_of_year - MonthLengths[month], month + 1)

\* date.strftime("%Y-%m")
MonthKey(date) == <<2025 + (date \div 365), MonthDay(date % 365, 1)[1]>>

\* date.strftime("%Y-%m-%d")
DateText(date) ==
    <<2025 + (date \div 365), MonthDay(date % 365, 1)[1], MonthDay(date % 365, 1)[2]>>

\* lines 317-328: monthly_data of the rows fetched
MonthlyData(rows) ==
    [k \in { MonthKey(t.date) : t \in rows } |->
       [income |->
          SumAmounts({ t \in rows : MonthKey(t.date) = k /\ t.type = "income" }),
        expenses |->
          SumAmounts({ t \in rows : MonthKey(t.date) = k /\ t.type # "income" })]]

\* GET /analytics/monthly, lines 301-305
get_monthly_analytics(p) == Authenticate(p, "monthly", "monthly_find", 0, None)

\* lines 308-328: the caller's rows dated in [now - 365 days, now]
get_monthly_analytics_find(p) ==
    /\ At(p, "monthly_find")
    /\ LET end_date == now
           start_date == end_date - WINDOW_DAYS
       IN \E rows \in
               find_to_list({ t \in OwnTransactions(req[p].user[1].id) :
                                t.date >= start_date /\ t.date <= end_date },
                            LIST_CAP) :
            Answer(p, "monthly", "", req[p], 200, Some(MonthlyData(rows)))
    /\ UNCHANGED <<users, user_sessions, transactions, now, next_id>>

\* lines 347-354: the CSV rows after the header row
CsvRows(rows) ==
    [i \in 1..Len(rows) |->
       <<DateText(rows[i].date), rows[i].type, rows[i].category,
         rows[i].description, rows[i].amount>>]

\* GET /export/csv, lines 332-336
export_csv(p) == Authenticate(p, "csv", "csv_find", 0, None)

\* lines 338-362
export_csv_find(p) ==
    /\ At(p, "csv_find")
    /\ \E s \in sort_date_desc(OwnTransactions(req[p].user[1].id)) :
         Answer(p, "csv", "", req[p], 200,
                Some(<<<<"Date", "Type", "Category", "Description", "Amount">>>>
                       \o CsvRows(to_list(s, LIST_CAP))))
    /\ UNCHANGED <<users, user_sessions, transactions, now, next_id>>

\* str.capitalize() of the type
Capitalize(type) ==
    CASE type = "income" -> "Income"
      [] type = "expense" -> "Expense"
      [] OTHER -> type

\* lines 383-402: the summary and the table rows of the PDF
PdfContent(rows) ==
    LET total_income == SumAmounts({ t \in Rows(rows) : t.type = "income" })
        total_expenses == SumAmounts({ t \in Rows(rows) : t.type = "expense" })
    IN [summary |-> [total_income |-> total_income,
                     total_expenses |-> total_expenses,
                     balance |-> total_income - total_expenses],
        table |-> [i \in 1..Len(rows) |->
                     <<DateText(rows[i].date), Capitalize(rows[i].type),
                       rows[i].category, rows[i].description, rows[i].amount>>]]

\* GET /export/pdf, lines 366-370
export_pdf(p) == Authenticate(p, "pdf", "pdf_find", 0, None)

\* lines 372-424
export_pdf_find(p) ==
    /\ At(p, "pdf_find")
    /\ \E s \in sort_date_desc(OwnTransactions(req[p].user[1].id)) :
         Answer(p, "pdf", "", req[p], 200, Some(PdfContent(to_list(s, LIST_CAP))))
    /\ UNCHANGED <<users, user_sessions, transactions, now, next_id>>

(***************************************************************************)
(* The session subsystem and a read endpoint, from the empty store.        *)
(***************************************************************************)
Next ==
    \/ Tick
    \/ Deliver
    \/ \E p \in Handlers :
         \/ get_session_data(p)
         \/ get_session_data_find(p)
         \/ get_session_data_insert_user(p)
         \/ get_session_data_insert_session(p)
         \/ logout(p)
         \/ get_current_user_info(p)
         \/ get_dashboard_stats(p)
         \/ get_dashboard_stats_find(p)

Spec == Init /\ [][Next]_vars

(***************************************************************************)
(* The transaction subsystem, from the store at day 7 after Ann logged in   *)
(* at day 0 (t3) and Ann (t1) and Bob (t2) logged in at day 7.             *)
(***************************************************************************)
InitTx ==
    /\ users = { [id |-> 1, email |-> "a@x", name |-> "Ann", picture |-> "pa1"],
                 [id |-> 2, email |-> "b@x", name |-> "Bob", picture |-> "pb1"] }
    /\ user_sessions =
         { [id |-> 1, user_id |-> 1, session_token |-> "t3",
            expires_at |-> 0 + SESSION_DAYS],
           [id |-> 2, user_id |-> 1, session_token |-> "t1",
            expires_at |-> 7 + SESSION_DAYS],
           [id |-> 3, user_id |-> 2, session_token |-> "t2",
            expires_at |-> 7 + SESSION_DAYS] }
    /\ transactions = {}
    /\ now = 7
    /\ next_id = [users |-> 3, user_sessions |-> 4, transactions |-> 1]
    /\ req = [p \in Handlers |-> Idle]
    /\ resp = None

NextTx ==
    \/ Deliver
    \/ \E p \in Handlers :
         \/ logout(p)
         \/ get_current_user_info(p)
         \/ create_transaction(p)
         \/ create_transaction_insert(p)
         \/ get_transaction(p)
         \/ get_transaction_find(p)
         \/ update_transaction(p)
         \/ update_transaction_find(p)
         \/ update_transaction_set(p)
         \/ update_transaction_refind(p)
         \/ delete_transaction(p)
         \/ delete_transaction_delete(p)
         \/ get_transactions(p)
         \/ get_transactions_find(p)
         \/ get_dashboard_stats(p)
         \/ get_dashboard_stats_find(p)
         \/ get_monthly_analytics(p)
         \/ get_monthly_analytics_find(p)
         \/ export_csv(p)
         \/ export_csv_find(p)
         \/ export_pdf(p)
         \/ export_pdf_find(p)

SpecTx == InitTx /\ [][NextTx]_vars

(***************************************************************************)
(* The queries, from a store that holds transactions: Ann and Bob logged   *)
(* in as above and created (and deleted) transactions.                     *)
(***************************************************************************)
\* what create stored for a request of the user with id user_id
Stored(id, user_id, type, amount, category, description, date) ==
    NewTransaction(id, [id |-> user_id],
                   [type |-> type, amount |-> amount, category |-> category,
                    description |-> description, date |-> date])

\* transactions of Ann (1) and Bob (2) around day 7: two of the same day and
\* category, one of a type that is neither income nor expense, a negative
\* amount, the first day of the 365-day window, the day before it, tomorrow
SampleRows ==
    { Stored(1, 1, "income", 100, "Salary", "pay", 7),
      Stored(2, 1, "expense", 50, "Food", "lunch", 5),
      Stored(3, 1, "expense", 30, "Food", "dinner", 5),
      Stored(4, 1, "transfer", 20, "Savings", "move", 0 - 3),
      Stored(5, 1, "expense", 0 - 5, "Food", "refund", 7 - WINDOW_DAYS),
      Stored(6, 1, "income", 10, "Gifts", "gift", 7 - WINDOW_DAYS - 1),
      Stored(7, 1, "expense", 40, "Rent", "deposit", 8),
      Stored(8, 2, "income", 70, "Salary", "pay", 7) }

\* n expenses of Ann, one a day back from day 6
BigStore(n) ==
    { Stored(i, 1, "expense", 1, "Food", "coffee", 7 - i) : i \in 1..n }

Stores == (SUBSET SampleRows) \cup { BigStore(LIST_CAP), BigStore(LIST_CAP + 1) }

InitQuery ==
    /\ users = { [id |-> 1, email |-> "a@x", name |-> "Ann", picture |-> "pa1"],
                 [id |-> 2, email |-> "b@x", name |-> "Bob", picture |-> "pb1"] }
    /\ user_sessions =
         { [id |-> 1, user_id |-> 1, session_token |-> "t3",
            expires_at |-> 0 + SESSION_DAYS],
           [id |-> 2, user_id |-> 1, session_token |-> "t1",
            expires_at |-> 7 + SESSION_DAYS],
           [id |-> 3, user_id |-> 2, session_token |-> "t2",
            expires_at |-> 7 + SESSION_DAYS] }
    /\ transactions \in Stores
    /\ now = 7
    /\ next_id = [users |-> 3, user_sessions |-> 4, transactions |-> LIST_CAP + 2]
    /\ req = [p \in Handlers |-> Idle]
    /\ resp = None

\* GET /transactions, GET /dashboard/stats and GET /analytics/monthly
NextQuery ==
    \/ Deliver
    \/ \E p \in Handlers :
         \/ get_transactions(p)
         \/ get_transactions_find(p)
         \/ get_dashboard_stats(p)
         \/ get_dashboard_stats_find(p)
         \/ get_monthly_analytics(p)
         \/ get_monthly_analytics_find(p)

SpecQuery == InitQuery /\ [][NextQuery]_vars

(***************************************************************************)
(* Two updates of one transaction in flight: Ann, logged in as above, has  *)
(* created a transaction and sent two PUT requests for it, which both      *)
(* passed get_current_user.                                                *)
(***************************************************************************)
Original == Stored(1, 1, "expense", 50, "Food", "lunch", 1)

InitUpdates ==
    /\ users = { [id |-> 1, email |-> "a@x", name |-> "Ann", picture |-> "pa1"],
                 [id |-> 2, email |-> "b@x", name |-> "Bob", picture |-> "pb1"] }
    /\ user_sessions =
         { [id |-> 1, user_id |-> 1, session_token |-> "t3",
            expires_at |-> 0 + SESSION_DAYS],
           [id |-> 2, user_id |-> 1, session_token |-> "t1",
            expires_at |-> 7 + SESSION_DAYS],
           [id |-> 3, user_id |-> 2, session_token |-> "t2",
            expires_at |-> 7 + SESSION_DAYS] }
    /\ transactions = {Original}
    /\ now = 7
    /\ next_id = [users |-> 3, user_sessions |-> 4, transactions |-> 2]
    /\ \E user \in get_current_user("t1") :
         req \in [Handlers ->
                    { Running("update_find", user, Original.id, Some(body)) :
                        body \in UpdateBodies }]
    /\ resp = None

\* the steps of PUT /transactions/{transaction_id} after get_current_user
NextUpdates ==
    \/ Deliver
    \/ \E p \in Handlers :
         \/ update_transaction_find(p)
         \/ update_transaction_set(p)
         \/ update_transaction_refind(p)

SpecUpdates == InitUpdates /\ [][NextUpdates]_vars

(***************************************************************************)
(* Properties.                                                             *)
(***************************************************************************)
\* handler p takes a step
Steps(p) == req'[p] # req[p]

\* this step sends a response of the route `kind`
Sends(kind) == resp' # None /\ resp'[1].kind = kind

\* this step sends a 200 response of the route `kind`
Returns(kind) == Sends(kind) /\ resp'[1].status = 200

\* this step is the first of a request: no handler that was running moves
FirstStep == \A p \in Handlers : req[p].pc # "idle" => req'[p] = req[p]

\* the positions of the handlers of GET, PUT and DELETE /transactions/{id}
ByIdPositions == {"get_find", "update_find", "update_set", "update_refind", "delete_one"}

\* the transaction the request of r names belongs to another user
Foreign(r) == \E t \in transactions : t.id = r.tid /\ t.user_id # r.user[1].id

\* the transaction the request of r names is in the store for no user
Absent(r) == \A t \in transactions : t.id # r.tid

\* C1: a read-single, update or delete by user A that names a transaction of
\* another user B changes no transaction and is answered 404 with no record,
\* the answer the same request gets for an id that is in the store for no user
\* (for an update at its first lookup, where the code decides not-found).
C1_CrossUserIsolation ==
    [][\A p \in Handlers :
         /\ (req[p].pc \in ByIdPositions /\ Foreign(req[p]) /\ Steps(p))
              => /\ transactions' = transactions
                 /\ resp' # None
                 /\ resp'[1].status = 404
                 /\ resp'[1].result = None
         /\ (req[p].pc \in {"get_find", "update_find", "delete_one"}
               /\ Absent(req[p]) /\ Steps(p))
              => /\ transactions' = transactions
                 /\ resp' # None
                 /\ resp'[1].status = 404
                 /\ resp'[1].result = None]_vars

\* C1 witness: an update by one user of another user's transaction was
\* answered 404 and the transaction is still in the store
C1_Witness ==
    /\ resp # None
    /\ resp[1].kind = "update"
    /\ resp[1].status = 404
    /\ \E t \in transactions : t.id = resp[1].tid /\ t.user_id # resp[1].user[1].id

\* C2: GET /auth/me, which answers with what get_current_user returns, is
\* answered 401 whenever the request's token is empty or no Session row with
\* that token has expires_at > now, and is answered with a user only when a
\* Session row with that token has expires_at > now and its user_id is the id
\* of that user, a row of the User store.
C2_IdentityResolution ==
    (resp # None /\ resp[1].kind = "me") =>
      LET token == resp[1].session_token
          live == { s \in user_sessions :
                      s.session_token = token /\ s.expires_at > now }
      IN /\ (token = "" \/ live = {}) =>
               (resp[1].status = 401 /\ resp[1].result = None)
         /\ resp[1].status \in {200, 401}
         /\ resp[1].status = 200 =>
               /\ resp[1].result # None
               /\ resp[1].result[1] \in users
               /\ \E s \in live : s.user_id = resp[1].result[1].id

\* C2 witness: a token whose only Session rows expire exactly now was
\* answered 401
C2_Witness ==
    /\ resp # None
    /\ resp[1].kind = "me"
    /\ resp[1].status = 401
    /\ \E s \in user_sessions :
         s.session_token = resp[1].session_token /\ s.expires_at = now

\* the routes that call get_current_user and raise 401 on None
Protected ==
    {"create", "list", "get", "update", "delete", "stats", "monthly", "csv",
     "pdf", "me"}

\* C3 (as claimed): a response a protected route sends to a request whose
\* token resolves to no user has status 401, whatever the body is.
C3_UnauthenticatedIs401 ==
    (/\ resp # None
     /\ resp[1].kind \in Protected
     /\ resp[1].user = None
     /\ get_current_user(resp[1].session_token) = {None})
      => resp[1].status = 401

\* the code on its own terms: a request that does not resolve is answered at
\* the handler's first step with 401 or, for a body that does not validate,
\* with 422, and that step changes nothing in the store
C3_UnauthenticatedChangesNothing ==
    [][(resp' # None /\ resp'[1].kind \in Protected /\ resp'[1].user = None)
         => /\ FirstStep
            /\ resp'[1].status \in {401, 422}
            /\ store' = store]_vars

\* the provider's answer handler p works on
ProviderData(p) == req[p].data[1]

\* C4: in a login exchange whose provider call succeeded, (a) the lookup by
\* email leads to an insert into the User store exactly when no User row has
\* that email, and otherwise goes on with a stored row of that email; (b) the
\* insert adds one User row with a fresh id and the provider's email, name and
\* picture; (c) the last step leaves every User row as it is (name and picture
\* are not refreshed) and adds exactly one Session row, with the provider's
\* session_token, the id of a stored User of that email and expires_at = now
\* + 7 days, and answers 200 with that stored User.
C4_LoginExchange ==
    [][\A p \in Handlers :
         /\ (req[p].pc = "login_find" /\ Steps(p)) =>
              /\ store' = store
              /\ req'[p].pc = "login_insert_user"
                   <=> ~\E u \in users : u.email = ProviderData(p).user_data.email
              /\ req'[p].pc # "login_insert_user" =>
                   /\ req'[p].pc = "login_insert_session"
                   /\ req'[p].user # None
                   /\ req'[p].user[1] \in users
                   /\ req'[p].user[1].email = ProviderData(p).user_data.email
         /\ (req[p].pc = "login_insert_user" /\ Steps(p)) =>
              /\ user_sessions' = user_sessions
              /\ \E u \in users' :
                   /\ users' = users \cup {u}
                   /\ \A v \in users : v.id # u.id
                   /\ u.email = ProviderData(p).user_data.email
                   /\ u.name = ProviderData(p).user_data.name
                   /\ u.picture = ProviderData(p).user_data.picture
                   /\ req'[p].user = Some(u)
              /\ req'[p].pc = "login_insert_session"
         /\ (req[p].pc = "login_insert_session" /\ Steps(p)) =>
              /\ users' = users
              /\ \E s \in user_sessions' :
                   /\ s \notin user_sessions
                   /\ user_sessions' = user_sessions \cup {s}
                   /\ s.session_token = ProviderData(p).session_token
                   /\ s.expires_at = now + 7
                   /\ \E u \in users :
                        /\ u.id = s.user_id
                        /\ u.email = ProviderData(p).user_data.email
                        /\ resp' # None
                        /\ resp'[1].status = 200
                        /\ resp'[1].result =
                             Some([user |-> u, session_token |-> s.session_token])]_vars

\* C4 witness: a login for the email of an existing User was answered with the
\* stored name and picture although the provider returned other ones, and the
\* Session row for the returned token is in the store
C4_Witness ==
    /\ resp # None
    /\ resp[1].kind = "login"
    /\ resp[1].status = 200
    /\ resp[1].result[1].user.name # resp[1].data[1].user_data.name
    /\ resp[1].result[1].user.picture # resp[1].data[1].user_data.picture
    /\ resp[1].result[1].user \in users
    /\ \E s \in user_sessions :
         /\ s.session_token = resp[1].data[1].session_token
         /\ s.user_id = resp[1].result[1].user.id
         /\ s.expires_at = now + 7

\* C5 (as claimed): no two User rows have the same email.
C5_EmailUnique ==
    \A u \in users : \A v \in users : u.email = v.email => u = v

\* C6: a login exchange that is not answered 200 is answered in the step that
\* receives it and changes no row; it is answered 400 exactly when the
\* X-Session-ID header is missing (no provider answer), 401 exactly when the
\* provider answered with a status other than 200, and 500 exactly when the
\* call to the provider failed.
C6_FailedLogin ==
    [][(Sends("login") /\ resp'[1].status # 200) =>
         /\ FirstStep
         /\ store' = store
         /\ resp'[1].result = None
         /\ resp'[1].status \in {400, 401, 500}
         /\ resp'[1].status = 400 <=> resp'[1].data = None
         /\ resp'[1].status = 401 <=>
              (resp'[1].data # None /\ resp'[1].data[1].outcome = "status_403")
         /\ resp'[1].status = 500 <=>
              (resp'[1].data # None /\ resp'[1].data[1].outcome = "request_error")]_vars

\* C6 witness: the provider rejected the session id and the exchange was
\* answered 401, with Users and Sessions in the store
C6_Witness ==
    /\ resp # None
    /\ resp[1].kind = "login"
    /\ resp[1].status = 401
    /\ resp[1].data[1].outcome = "status_403"
    /\ users # {}
    /\ user_sessions # {}

\* C7: every logout is answered 200 with a message; it changes no User and no
\* Transaction; when no Session row has the request's token (or the request
\* has none) it changes no Session row, and otherwise it removes exactly one
\* Session row, one with that token, and leaves every other row as it is.
C7_Logout ==
    [][Sends("logout") =>
         LET token == resp'[1].session_token
             matching == { s \in user_sessions : s.session_token = token }
         IN /\ resp'[1].status = 200
            /\ resp'[1].result # None
            /\ users' = users
            /\ transactions' = transactions
            /\ (token = "" \/ matching = {}) => user_sessions' = user_sessions
            /\ (token # "" /\ matching # {}) =>
                 \E s \in matching : user_sessions' = user_sessions \ {s}]_vars

\* C7 witness: a logout removed the row of its token while another session of
\* the same user, a session of another user and a transaction are in the store
C7_Witness ==
    /\ resp # None
    /\ resp[1].kind = "logout"
    /\ resp[1].session_token = "t1"
    /\ \A s \in user_sessions : s.session_token # "t1"
    /\ \E s \in user_sessions : s.session_token = "t3" /\ s.user_id = 1
    /\ \E s \in user_sessions : s.user_id = 2
    /\ transactions # {}

\* the body of the update handler p works on
UpdateBody(p) == req[p].data[1]

\* the fields a body supplies with a value other than null
Supplied(body) == { f \in DOMAIN body : body[f] # None }

\* C8: the write of an update gives the caller's transaction the supplied
\* value in every field supplied non-null and leaves every other field of it,
\* its id and owner, and every other transaction as they were; an update that
\* found the caller's transaction writes exactly when its body supplies a
\* non-null field, and one that supplies none changes nothing.
C8_PartialMerge ==
    [][\A p \in Handlers :
         /\ (req[p].pc = "update_find" /\ Steps(p) /\ resp' = None) =>
              (req'[p].pc = "update_set" <=> Supplied(UpdateBody(p)) # {})
         /\ (req[p].pc = "update_set" /\ Steps(p)) =>
              /\ Supplied(UpdateBody(p)) # {}
              /\ \A old \in transactions :
                   IF old.id = req[p].tid /\ old.user_id = req[p].user[1].id
                   THEN \E new \in transactions' :
                          /\ transactions' = (transactions \ {old}) \cup {new}
                          /\ new.id = old.id
                          /\ new.user_id = old.user_id
                          /\ \A f \in Fields :
                               new[f] = IF f \in Supplied(UpdateBody(p))
                                        THEN UpdateBody(p)[f][1]
                                        ELSE old[f]
                   ELSE old \in transactions'
         /\ (req[p].pc \in {"update_find", "update_set", "update_refind"}
               /\ Supplied(UpdateBody(p)) = {} /\ Steps(p)) =>
              /\ transactions' = transactions
              /\ req'[p].pc # "update_set"]_vars

\* C8 witness: an update that supplied amount 0 and a null category has
\* written: the amount is 0 and the category is the one the record had
C8_Witness ==
    \E p \in Handlers :
      /\ req[p].pc = "update_refind"
      /\ UpdateBody(p) = [amount |-> Some(0), category |-> None]
      /\ \E t \in transactions :
           /\ t.id = req[p].tid
           /\ t.amount = 0
           /\ t.category = "Food"
           /\ t.description = "lunch"

\* C9 (as claimed): an authenticated update is answered 404 or 200, and 200
\* carries the record of that transaction.
C9_UpdateOutcomes ==
    (resp # None /\ resp[1].kind = "update" /\ resp[1].user # None) =>
      \/ resp[1].status = 404 /\ resp[1].result = None
      \/ /\ resp[1].status = 200
         /\ resp[1].result # None
         /\ resp[1].result[1].id = resp[1].tid

\* the ids create has given out
Allocated == 1..(next_id.transactions - 1)

\* the id is allocated and no longer in the store: its transaction was deleted
Deleted(id) == id \in Allocated /\ \A t \in transactions : t.id # id

\* the ids of the rows of a list response
ListedIds(rows) == { rows[i].id : i \in 1..Len(rows) }

\* C10: a delete answered 200 has removed the transaction; a deleted id never
\* returns to the store; reading or deleting a deleted id is answered 404 and
\* changes nothing; a list holds only rows that are in the store, and stats,
\* analytics and exports count only the caller's rows that are in the store.
C10_DeletedStaysDeleted ==
    [][/\ \A id \in TxIds : Deleted(id) => Deleted(id)'
       /\ Returns("delete") =>
            \A t \in transactions' : t.id # resp'[1].tid
       /\ \A p \in Handlers :
            (req[p].pc \in {"get_find", "delete_one"} /\ Deleted(req[p].tid)
               /\ Steps(p)) =>
              /\ resp' # None
              /\ resp'[1].status = 404
              /\ store' = store
       /\ Returns("list") =>
            /\ \A i \in 1..Len(resp'[1].result[1]) :
                 resp'[1].result[1][i] \in transactions
            /\ \A id \in TxIds :
                 Deleted(id) => id \notin ListedIds(resp'[1].result[1])
       /\ Returns("stats") =>
            resp'[1].result[1].transactions_count =
              Cardinality({ t \in transactions : t.user_id = resp'[1].user[1].id })
       /\ Returns("monthly") =>
            Cardinality(DOMAIN resp'[1].result[1]) <=
              Cardinality({ t \in transactions : t.user_id = resp'[1].user[1].id })
       /\ Returns("csv") =>
            Len(resp'[1].result[1]) =
              1 + Cardinality({ t \in transactions :
                                  t.user_id = resp'[1].user[1].id })
       /\ Returns("pdf") =>
            Len(resp'[1].result[1].table) =
              Cardinality({ t \in transactions : t.user_id = resp'[1].user[1].id })
      ]_vars

\* C10 witness: a delete of an id that was deleted before is answered 404
C10_Witness ==
    /\ resp # None
    /\ resp[1].kind = "delete"
    /\ resp[1].status = 404
    /\ Deleted(resp[1].tid)

\* the caller's transactions, for the response this step sends
Mine == { t \in transactions : t.user_id = resp'[1].user[1].id }

\* C11: for any set of transactions the caller has stored, of any size, the
\* dashboard stats have balance = total_income - total_expenses,
\* transactions_count = the number of all the caller's transactions, and
\* total_income and total_expenses the sums of the amounts of the caller's
\* transactions of type income and of type expense.
C11_StatsTotals ==
    [][Returns("stats") =>
         LET stats == resp'[1].result[1]
         IN /\ stats.balance = stats.total_income - stats.total_expenses
            /\ stats.transactions_count = Cardinality(Mine)
            /\ stats.total_income =
                 SumAmounts({ t \in Mine : t.type = "income" })
            /\ stats.total_expenses =
                 SumAmounts({ t \in Mine : t.type = "expense" })
      ]_vars

\* the caller's transactions dated within the 365 days up to the call
MineInWindow ==
    { t \in Mine : t.date >= now - WINDOW_DAYS /\ t.date <= now }

\* C12: monthly analytics has one bucket for each calendar year-month in which
\* the caller has a transaction dated within the trailing 365 days, with
\* income the sum of the amounts of those of type income and expenses the sum
\* of the amounts of those of type expense, for every transaction create
\* accepts; other months have no bucket, and transactions of other users or
\* outside the window contribute nothing.
C12_MonthlyBuckets ==
    [][Returns("monthly") =>
         LET monthly_data == resp'[1].result[1]
         IN /\ DOMAIN monthly_data = { MonthKey(t.date) : t \in MineInWindow }
            /\ \A k \in DOMAIN monthly_data :
                 /\ monthly_data[k].income =
                      SumAmounts({ t \in MineInWindow :
                                     MonthKey(t.date) = k /\ t.type = "income" })
                 /\ monthly_data[k].expenses =
                      SumAmounts({ t \in MineInWindow :
                                     MonthKey(t.date) = k /\ t.type = "expense" })
      ]_vars

\* C13: a list holds only transactions of the caller, by date descending, at
\* most 1000 of them; with a category filter every row has that category,
\* with a start and/or end bound every row has date >= start and date <= end,
\* the filters combine, and every transaction of the caller that matches all
\* the filters supplied is in the list as long as the cap is not exceeded.
C13_ListFilters ==
    [][Returns("list") =>
         LET q == resp'[1].data[1]
             rows == resp'[1].result[1]
             matching ==
               { t \in Mine :
                   /\ q.category # "" => t.category = q.category
                   /\ q.start_date # None => t.date >= q.start_date[1]
                   /\ q.end_date # None => t.date <= q.end_date[1] }
         IN /\ \A i \in 1..Len(rows) :
                 /\ rows[i] \in Mine
                 /\ q.category # "" => rows[i].category = q.category
                 /\ q.start_date # None => rows[i].date >= q.start_date[1]
                 /\ q.end_date # None => rows[i].date <= q.end_date[1]
            /\ \A i \in 1..(Len(rows) - 1) : rows[i].date >= rows[i + 1].date
            /\ Cardinality(Rows(rows)) = Len(rows)
            /\ Len(rows) <= LIST_CAP
            /\ Cardinality(matching) <= LIST_CAP => Rows(rows) = matching
            /\ Cardinality(matching) > LIST_CAP => Len(rows) = LIST_CAP
      ]_vars

\* C13 witness: a list filtered by category and start date that holds two
\* transactions of the same day and leaves out transactions of the caller of
\* another category and of an earlier date
C13_Witness ==
    /\ resp # None
    /\ resp[1].kind = "list"
    /\ resp[1].status = 200
    /\ resp[1].data[1].category = "Food"
    /\ resp[1].data[1].start_date # None
    /\ Len(resp[1].result[1]) = 2
    /\ resp[1].result[1][1].date = resp[1].result[1][2].date
    /\ \E t \in transactions :
         /\ t.user_id = resp[1].user[1].id
         /\ t.category # "Food"
    /\ \E t \in transactions :
         /\ t.user_id = resp[1].user[1].id
         /\ t.category = "Food"
         /\ t.date < resp[1].data[1].start_date[1]

\* a list of a caller with more than 1000 transactions holds 1000 of them
C13_CapWitness ==
    /\ resp # None
    /\ resp[1].kind = "list"
    /\ resp[1].status = 200
    /\ Len(resp[1].result[1]) = LIST_CAP
    /\ Cardinality({ t \in transactions : t.user_id = resp[1].user[1].id }) > LIST_CAP

\* the response this step sends is what identity resolution of `token` gives:
\* the user of a session of that token that has not expired, 401 without one
ResolvedBy(token) ==
    IF resp'[1].status = 200
    THEN \E s \in user_sessions :
           /\ s.session_token = token
           /\ s.expires_at > now
           /\ resp'[1].result[1].id = s.user_id
    ELSE /\ resp'[1].status = 401
         /\ \A s \in user_sessions :
              s.session_token = token => s.expires_at <= now

\* this step deletes one session of `token`, or nothing if there is none
LoggedOutBy(token) ==
    IF \E s \in user_sessions : s.session_token = token
    THEN \E s \in user_sessions :
           /\ s.session_token = token
           /\ user_sessions' = user_sessions \ {s}
    ELSE user_sessions' = user_sessions

\* the request carries "Authorization: Bearer <token>"
Bearer(header) == Len(header) = 2 /\ header[1] = "Bearer "

\* C14: when a request carries a session_token cookie, identity resolution
\* and logout are decided by the cookie's value alone, whatever its
\* Authorization header (a valid header token does not rescue an invalid
\* cookie, and logout deletes the cookie's session); the bearer token of the
\* header decides only when there is no cookie.
C14_CookiePrecedence ==
    [][/\ Sends("me") =>
            LET credentials == resp'[1].data[1]
            IN /\ credentials.cookie # "" => ResolvedBy(credentials.cookie)
               /\ (credentials.cookie = "" /\ Bearer(credentials.header)) =>
                    ResolvedBy(credentials.header[2])
       /\ Sends("logout") =>
            LET credentials == resp'[1].data[1]
            IN /\ credentials.cookie # "" => LoggedOutBy(credentials.cookie)
               /\ (credentials.cookie = "" /\ Bearer(credentials.header)) =>
                    LoggedOutBy(credentials.header[2])
      ]_vars

\* C14 witness: a request to /auth/me with the cookie of an expired session
\* and the bearer token of a live one is answered 401
C14_Witness ==
    /\ resp # None
    /\ resp[1].kind = "me"
    /\ resp[1].status = 401
    /\ resp[1].data[1].cookie = "t3"
    /\ resp[1].data[1].header = <<"Bearer ", "t1">>
    /\ \E s \in user_sessions : s.session_token = "t1" /\ s.expires_at > now

\* a logout with the cookie of one session and the bearer token of another
\* has deleted the cookie's session and left the header's
C14_LogoutWitness ==
    /\ resp # None
    /\ resp[1].kind = "logout"
    /\ resp[1].data[1].cookie = "t1"
    /\ resp[1].data[1].header = <<"Bearer ", "t2">>
    /\ \A s \in user_sessions : s.session_token # "t1"
    /\ \E s \in user_sessions : s.session_token = "t2"

\* the record with the non-null fields of a request body put in
Merged(row, body) ==
    [f \in DOMAIN row |->
       IF f \in DOMAIN body /\ body[f] # None THEN body[f][1] ELSE row[f]]

\* handler p has made the write of its update, or had none to make, and has
\* not answered yet
Written(p) == req[p].pc = "update_refind"

\* C15: when two updates of the same transaction interleave, the stored
\* record after both writes is the two partial merges applied one after the
\* other in one of the two orders (a field only one of them supplies has that
\* update's value), never a record neither order gives; after the write of
\* one of them alone it is that merge.
C15_LastWriteWins ==
    \A p, q \in Handlers :
      p # q =>
        /\ (Written(p) /\ Written(q)) =>
              \/ transactions =
                   {Merged(Merged(Original, UpdateBody(p)), UpdateBody(q))}
              \/ transactions =
                   {Merged(Merged(Original, UpdateBody(q)), UpdateBody(p))}
        /\ (Written(p) /\ req[q].pc \in {"update_find", "update_set"}) =>
              transactions = {Merged(Original, UpdateBody(p))}

\* C15 witness: both updates have written, one supplying the amount alone and
\* the other every field with another amount; the record has the amount of
\* the first and the category of the second
C15_Witness ==
    \E p, q \in Handlers :
      /\ p # q
      /\ Written(p)
      /\ Written(q)
      /\ DOMAIN update_data(UpdateBody(p)) = {"amount"}
      /\ DOMAIN update_data(UpdateBody(q)) = Fields
      /\ \E t \in transactions :
           /\ t.amount = UpdateBody(p).amount[1]
           /\ t.amount # UpdateBody(q).amount[1]
           /\ t.category = UpdateBody(q).category[1]
           /\ t.category # Original.category

\* this step is one of identity resolution or of a read endpoint: it answers
\* GET /auth/me or GET /dashboard/stats, or takes a handler from
\* get_current_user on to the query of the stats
Reads ==
    \/ Sends("me")
    \/ Sends("stats")
    \/ \E p \in Handlers : req[p].pc = "idle" /\ req'[p].pc = "stats_find"

\* C16: identity resolution and the read endpoints are read-only, with no
\* sliding expiry: their steps add, delete and change no Session, User or
\* Transaction row; a Session row is never changed (it stays as login made
\* it, with expires_at 7 days after the login, until a logout deletes it); so
\* a token resolves only while a session of it is less than 7 days old.
C16_ReadOnlyResolution ==
    [][/\ Reads => store' = store
       /\ \A s \in user_sessions :
            s \in user_sessions' \/ (\A m \in user_sessions' : m.id # s.id)
       /\ \A s \in user_sessions' :
            s \in user_sessions \/
              /\ \A m \in user_sessions : m.id # s.id
              /\ s.expires_at = now + SESSION_DAYS
       /\ Returns("me") =>
            \E s \in user_sessions' :
              /\ s.session_token = resp'[1].session_token
              /\ s.expires_at - SESSION_DAYS <= now'
              /\ now' < s.expires_at
      ]_vars

\* C16 witness: a token resolves the day after its login, its session still
\* expiring 7 days after the login
C16_Witness ==
    /\ resp # None
    /\ resp[1].kind = "me"
    /\ resp[1].status = 200
    /\ now = 8
    /\ \A s \in user_sessions :
         s.session_token = resp[1].session_token => s.expires_at = 7 + SESSION_DAYS

\* C17: logout revokes the token: when a logout request carrying token t has
\* completed, no Session row lets t resolve (none until a later login stores
\* t again), whatever login exchanges came before, those in which the
\* provider returned the same session_token more than once included.
C17_LogoutRevokes ==
    [][(Sends("logout") /\ resp'[1].session_token # "") =>
         \A s \in user_sessions' :
           s.session_token = resp'[1].session_token => s.expires_at <= now'
      ]_vars

\* the values of the mapping f at `keys` added up
RECURSIVE SumValues(_, _)
SumValues(f, keys) ==
    IF keys = {} THEN 0
    ELSE LET k == CHOOSE x \in keys : TRUE
         IN f[k] + SumValues(f, keys \ {k})

\* C18: for every set of transactions create accepts, category_breakdown maps
\* each category that occurs among the transactions counted to the sum of
\* their amounts in that category, and the values of category_breakdown add
\* up to total_income + total_expenses.
C18_CategoryBreakdown ==
    [][(Returns("stats") /\ Cardinality(Mine) <= LIST_CAP) =>
         LET stats == resp'[1].result[1]
             category_breakdown == stats.category_breakdown
         IN /\ DOMAIN category_breakdown = { t.category : t \in Mine }
            /\ \A c \in DOMAIN category_breakdown :
                 category_breakdown[c] =
                   SumAmounts({ t \in Mine : t.category = c })
            /\ SumValues(category_breakdown, DOMAIN category_breakdown) =
                 stats.total_income + stats.total_expenses
      ]_vars

====
